---- MODULE Spec2Model ----
(***************************************************************************)
(* The Nina js-sdk: Release, Hub and Exchange modules.                     *)
(*                                                                         *)
(* Every exported operation is an async function.  Its body is written     *)
(* here as the sequence of its steps, in source order; a call executes     *)
(* its body one step at a time and calls interleave at the steps.  A step  *)
(* that talks to the outside (chain RPC, REST API, wallet) either          *)
(* resolves or throws; what it resolves to is chosen by the environment.   *)
(***************************************************************************)
EXTENDS Integers, Sequences, FiniteSets, TLC

VARIABLES op, pc, args, env, tx, trace, handed, query, result, heap

vars == <<op, pc, args, env, tx, trace, handed, query, result, heap>>

(* ------------------------------ bounds --------------------------------- *)

\* hubParams.publishFee / referralFee given by a caller, in percent
MaxFee == 1
\* pagination.limit and pagination.offset given by a caller
MaxPage == 1
\* percentShare given to addRoyaltyRecipient
MaxShare == 2
\* the largest number of editions
MaxAmount == 1

\* the concurrent calls in flight
Calls == {"c1", "c2"}

\* what the REST API may answer to a GET
RestVals == {"r1", "r2"}

Mints == {"usdc", "wsol"}

(* --------------------------- step notation ----------------------------- *)
(* A step is <<kind, name, cond, extra>>.  cond guards the step (the if    *)
(* around it in the source); a step whose cond is false is skipped.        *)

Always == <<"always">>
\* the local v holds a value (is truthy)
Defined(v) == <<"defined", v>>
\* the argument a is truthy
Given(a) == <<"given", a>>
\* the local v holds x
Is(v, x) == <<"is", v, x>>
\* client.isSol(v): the mint held by v is wrapped SOL
IsSol(v) == <<"is", v, <<"mint", "wsol">>>>
Not(c) == <<"not", c>>
And(c, d) == <<"and", c, d>>
Or(c, d) == <<"or", c, d>>

\* value expressions
\* provider.wallet.publicKey
Wallet == <<"wallet">>
Lit(s) == <<"lit", s>>
Arg(a) == <<"arg", a>>
Var(v) == <<"var", v>>
\* a field of an account fetched from the chain, kept symbolic
Chain(f) == <<"chain", f>>
\* <argument> * 10000
Scaled(a) == <<"scaled", a>>
\* a field of the hubParams object the call was given
\* `nina-hub-${type.toLowerCase()}`
HubChildTag == <<"hubChildTag">>
Param(f) == <<"param", f>>

\* await of an external call whose value the properties do not read
Aw(n) == <<"await", n, Always, <<>>>>
AwIf(n, c) == <<"await", n, c, <<>>>>
\* program.account.<x>.fetch: binds chain data; vals are the values the chain may hold
Account(v, vals) == <<"account", v, Always, vals>>
\* findOrCreateAssociatedTokenAccount(connection, payer, owner, ..., mint): binds the
\* account to acct and, when the account does not exist yet, its create instruction to ix
Ata(acct, ix, owner, mint) == <<"ata", acct, Always, <<ix, owner, mint>>>>
\* PublicKey.findProgramAddress(seeds, programId)
Pda(v, seeds) == <<"pda", v, Always, seeds>>
PdaIf(v, seeds, c) == <<"pda", v, c, seeds>>
\* a local bound without an await (a generated keypair, a built instruction)
Let(v, c) == <<"let", v, c, <<>>>>
\* hubParams.<f> = ...: a write to the caller's object
Assign(f, how) == <<"assign", f, Always, how>>
\* evaluation of an identifier or member that does not exist: throws
Throw(n, c) == <<"throw", n, c, <<>>>>
\* const v = <an expression of the parameters>, named by f
Compute(v, f) == <<"compute", v, Always, f>>
\* return before the end of the body
ReturnIf(c) == <<"returnIf", "undefined", c, <<>>>>
\* program.methods.<m>(...).accounts(accts).preInstructions(pre).transaction()
Build(m, accts, pre, params) == <<"build", m, Always, <<accts, pre, params>>>>
BuildIf(m, accts, pre, params, c) == <<"build", m, c, <<accts, pre, params>>>>
\* tx.recentBlockhash = (await getRecentBlockhash()).blockhash; tx.feePayer = wallet
Blockhash == <<"blockhash", "getRecentBlockhash", Always, <<>>>>
PartialSign(k) == <<"sign", k, Always, <<>>>>
Send == <<"send", "sendTransaction", Always, <<>>>>
\* program.methods.<m>(...).rpc(): anchor sets blockhash and fee payer, signs and sends
Rpc == <<"rpc", "rpc", Always, <<>>>>
Confirm(n) == <<"confirm", n, Always, <<>>>>
\* NinaClient.get(path, query): binds the response to v
Get(v, path, q) == <<"get", v, Always, <<path, q>>>>
\* return v, or {wrap: v} when wrap is not ""
Return(v, wrap) == <<"return", v, Always, wrap>>

(* ------------------------- Release module ------------------------------ *)
(* Each operation: catch is what its catch block returns ("error": the     *)
(* object {error}; "false"; "undefined": the block only logs; "none": the  *)
(* body is in no try), body is its steps.                                  *)

\* the query fetchAll builds from the caller's pagination object
DefaultLimit == 20
DefaultOffset == 0

\* a field of the pagination object is <<>> when the caller did not give it, <<v>> when given.
\* x || d
OrNumber(x, d) == IF x = <<>> \/ x = <<0>> THEN d ELSE x[1]

OrString(x, d) == IF x = <<>> \/ x = <<"">> THEN d ELSE x[1]

FetchAllQuery(pagination) ==
    [limit  |-> OrNumber(pagination.limit, DefaultLimit),
     offset |-> OrNumber(pagination.offset, DefaultOffset),
     sort   |-> OrString(pagination.sort, "desc")]

ReleaseFetchAll ==
    [catch |-> "none",
     body |-> << Get("response", "/releases", "fetchAll"),
                 Return("response", "") >>]

\* the query NinaClient.get is given when the caller's pagination object is passed on as
\* it is: a field the caller did not give is absent (-1, "none")
PassQuery(pagination) ==
    [limit  |-> IF pagination.limit = <<>> THEN -1 ELSE pagination.limit[1],
     offset |-> IF pagination.offset = <<>> THEN -1 ELSE pagination.offset[1],
     sort   |-> IF pagination.sort = <<>> THEN "none" ELSE pagination.sort[1]]

\* fetchCollectors(publicKey, withCollection): NinaClient.get is given the path only
fetchCollectors ==
    [catch |-> "none",
     body |-> << Get("response", "/releases/:publicKey/collectors", "none"),
                 Return("response", "") >>]

\* fetchHubs(publicKey, withAccountData): the query given is undefined
fetchHubs ==
    [catch |-> "none",
     body |-> << Get("response", "/releases/:publicKey/hubs", "none"),
                 Return("response", "") >>]

\* fetchExchanges(publicKey, withAccountData, pagination)
fetchExchanges ==
    [catch |-> "none",
     body |-> << Get("response", "/releases/:publicKey/exchanges", "pagination"),
                 Return("response", "") >>]

\* fetchRevenueShareRecipients(publicKey, withAccountData): the query given is undefined
fetchRevenueShareRecipients ==
    [catch |-> "none",
     body |-> << Get("response", "/releases/:publicKey/revenueShareRecipients", "none"),
                 Return("response", "") >>]

\* the hub-release seeds with the release ahead of the hub
HubReleaseSeedsSwapped(hub, release) == <<Lit("nina-hub-release"), release, hub>>

HubReleaseSeeds(hub, release) == <<Lit("nina-hub-release"), hub, release>>
HubContentSeeds(hub, content) == <<Lit("nina-hub-content"), hub, content>>
HubSignerSeeds(hub) == <<Lit("nina-hub-signer"), hub>>
HubCollaboratorSeeds(hub, who) == <<Lit("nina-hub-collaborator"), hub, who>>

purchaseViaHub ==
    [catch |-> "error",
     body |-> <<
        Aw("client.useProgram"),
        Account("release.paymentMint", {<<"mint", "usdc">>}),
        Ata("payerTokenAccount", "", Wallet, Var("release.paymentMint")),
        Ata("receiverReleaseTokenAccount", "receiverReleaseTokenAccountIx", Wallet,
            Chain("release.releaseMint")),
        Account("hub", {<<"account", "hub">>}),
        Pda("hubRelease", HubReleaseSeeds(Arg("hubPublicKey"), Arg("releasePublicKey"))),
        Pda("hubContent", HubContentSeeds(Arg("hubPublicKey"), Arg("releasePublicKey"))),
        Pda("hubSigner", HubSignerSeeds(Arg("hubPublicKey"))),
        Ata("hubWallet", "", Var("hubSigner"), Var("release.paymentMint")),
        Aw("axios.get price"),
        \* getUsdcBalance: "short" when usdcBalance < convertAmount
        Account("usdcBalance", {<<"balance", "short">>, <<"balance", "enough">>}),
        Let("additionalComputeBudgetInstruction", Is("usdcBalance", <<"balance", "short">>)),
        AwIf("axios.get quote", Is("usdcBalance", <<"balance", "short">>)),
        AwIf("axios.post swap", Is("usdcBalance", <<"balance", "short">>)),
        Let("transactionInstructions", Is("usdcBalance", <<"balance", "short">>)),
        \* if (instructions.length > 0) request.instructions = instructions
        Throw("ReferenceError: request is not defined",
              Or(Defined("additionalComputeBudgetInstruction"),
                 Defined("receiverReleaseTokenAccountIx"))),
        Build("releasePurchaseViaHub",
              << <<"payer", Wallet>>, <<"receiver", Wallet>>,
                 <<"release", Arg("releasePublicKey")>>,
                 <<"payerTokenAccount", Var("payerTokenAccount")>>,
                 <<"receiverReleaseTokenAccount", Var("receiverReleaseTokenAccount")>>,
                 <<"hub", Arg("hubPublicKey")>>,
                 <<"hubRelease", Var("hubRelease")>>,
                 <<"hubContent", Var("hubContent")>>,
                 <<"hubSigner", Var("hubSigner")>>,
                 <<"hubWallet", Var("hubWallet")>> >>,
              <<"additionalComputeBudgetInstruction", "transactionInstructions",
                "receiverReleaseTokenAccountIx">>,
              << <<"price", Chain("release.price")>> >>),
        Blockhash,
        Send,
        Confirm("getConfirmTransaction"),
        Aw("axios.get collected"),
        Get("newRelease", "/releases/:publicKey", "none"),
        Return("newRelease", "release") >>]

releasePurchase ==
    [catch |-> "error",
     body |-> <<
        Aw("client.useProgram"),
        Account("release.paymentMint", {<<"mint", "usdc">>, <<"mint", "wsol">>}),
        \* line 272 compares the function release.price.toNumber with 0: never equal,
        \* so the free-release branch of lines 273-284 is never taken
        Ata("payerTokenAccount", "", Wallet, Var("release.paymentMint")),
        Ata("receiverReleaseTokenAccount", "receiverReleaseTokenAccountIx", Wallet,
            Chain("release.releaseMint")),
        Throw("ReferenceError: wrapSol is not defined", IsSol("release.paymentMint")),
        Build("releasePurchase",
              << <<"payer", Wallet>>, <<"receiver", Wallet>>,
                 <<"release", Arg("releasePublicKey")>>,
                 <<"payerTokenAccount", Var("payerTokenAccount")>>,
                 <<"receiverReleaseTokenAccount", Var("receiverReleaseTokenAccount")>> >>,
              <<"receiverReleaseTokenAccountIx">>,
              << <<"price", Chain("release.price")>> >>),
        Blockhash,
        Send,
        Confirm("getConfirmTransaction"),
        \* `${endpoints.api}/accounts/...`: endpoints was never destructured from client
        Throw("ReferenceError: endpoints is not defined", Always),
        Aw("axios.get collected"),
        Get("newRelease", "/releases/:publicKey", "none"),
        Return("newRelease", "release") >>]

(* Argument values: <<"str", characters>> or <<"bool", b>>.                  *)
Str(s) == <<"str", s>>
Bool(b) == <<"bool", b>>

\* truthiness of a value: isUsdc ? ... : ...
Truthy(v) == IF v[1] = "bool" THEN v[2] ELSE v[2] # <<>>

\* a value inside a template literal: `${artist} - ${title}`
Template(v) ==
    IF v[1] = "str" THEN v[2]
    ELSE IF v[2] THEN <<"t", "r", "u", "e">> ELSE <<"f", "a", "l", "s", "e">>

\* s.substring(0, n) and buf.slice(0, n)
Substring(s, n) == SubSeq(s, 1, IF Len(s) < n THEN Len(s) ELSE n)

NameLength == 32
SymbolLength == 10

\* const MAX_INT = '18446744073709551615'
MAX_INT == <<"1", "8", "4", "4", "6", "7", "4", "4", "0", "7", "3", "7", "0", "9", "5",
             "5", "1", "6", "1", "5">>

\* the decimal digits of a number, most significant first
RECURSIVE Digits(_)
Digits(n) == IF n < 10 THEN <<n>> ELSE Append(Digits(n \div 10), n % 10)

DigitOf(ch) ==
    CASE ch = "0" -> 0 [] ch = "1" -> 1 [] ch = "2" -> 2 [] ch = "3" -> 3 [] ch = "4" -> 4
      [] ch = "5" -> 5 [] ch = "6" -> 6 [] ch = "7" -> 7 [] ch = "8" -> 8 [] ch = "9" -> 9

\* new anchor.BN(x): of a number its value, of a string the decimal number it spells;
\* a BN is held as its decimal digits
BN(x) == IF x[1] = "num" THEN Digits(x[2]) ELSE [i \in DOMAIN x[2] |-> DigitOf(x[2][i])]

\* an edition amount that takes no account of isOpen
EditionAmountIgnoresOpen(isOpen, amount) == <<"num", amount>>

\* isOpen ? MAX_INT : amount
EditionAmount(isOpen, amount) == IF isOpen THEN <<"str", MAX_INT>> ELSE <<"num", amount>>

\* config: amountTotalSupply, amountToArtistTokenAccount, amountToVaultTokenAccount
Config(isOpen, amount) ==
    <<"config", BN(EditionAmount(isOpen, amount)), BN(<<"num", 0>>), BN(<<"num", 0>>)>>

\* isUsdc ? ids.mints.usdc : ids.mints.wsol
PaymentMint(isUsdc) == IF Truthy(isUsdc) THEN <<"mint", "usdc">> ELSE <<"mint", "wsol">>

\* metadataData: name, symbol, uri; catalogNumber.substring is not a function when
\* catalogNumber is not a string
MetadataData(artist, title, catalogNumber, metadataUri) ==
    IF catalogNumber[1] # "str" THEN <<"TypeError">>
    ELSE <<"metadata",
           Substring(Substring(Template(artist) \o <<" ", "-", " ">> \o Template(title),
                               NameLength), NameLength),
           Substring(Substring(catalogNumber[2], SymbolLength), SymbolLength),
           metadataUri>>

\* the parameters after resalePercentage, in the order each function declares them
ReleaseInitViaHubParams == <<"isUsdc", "metadataUri", "artist", "title", "catalogNumber">>
ReleaseInitParams == <<"artist", "title", "catalogNumber", "metadataUri", "isUsdc">>

releaseInitViaHub ==
    [catch |-> "error",
     body |-> <<
        Aw("client.useProgram"),
        Account("hub", {<<"account", "hub">>}),
        Compute("paymentMint", "paymentMint"),
        Pda("releaseSigner", <<Arg("release")>>),
        Aw("createMintInstructions"),
        Ata("authorityTokenAccount", "authorityTokenAccountIx", Wallet, Var("paymentMint")),
        Ata("royaltyTokenAccount", "royaltyTokenAccountIx", Var("releaseSigner"),
            Var("paymentMint")),
        Pda("hubCollaborator", HubCollaboratorSeeds(Arg("hubPublicKey"), Wallet)),
        Pda("hubSigner", HubSignerSeeds(Arg("hubPublicKey"))),
        Pda("hubRelease", HubReleaseSeeds(Arg("hubPublicKey"), Arg("release"))),
        Pda("hubContent", HubContentSeeds(Arg("hubPublicKey"), Arg("release"))),
        Ata("hubWallet", "", Var("hubSigner"), Var("paymentMint")),
        Compute("config", "config"),
        Pda("metadata", <<Lit("metadata"), Lit("metaplex"), Lit("releaseMint")>>),
        Compute("metadataData", "metadataData"),
        Build("releaseInitViaHub",
              << <<"authority", Wallet>>, <<"release", Arg("release")>>,
                 <<"releaseSigner", Var("releaseSigner")>>,
                 <<"hubCollaborator", Var("hubCollaborator")>>,
                 <<"hub", Arg("hubPublicKey")>>,
                 <<"hubRelease", Var("hubRelease")>>,
                 <<"hubContent", Var("hubContent")>>,
                 <<"hubSigner", Var("hubSigner")>>,
                 <<"hubWallet", Var("hubWallet")>>,
                 <<"authorityTokenAccount", Var("authorityTokenAccount")>>,
                 <<"royaltyTokenAccount", Var("royaltyTokenAccount")>> >>,
              <<"royaltyTokenAccountIx", "authorityTokenAccountIx">>,
              << <<"config", Var("config")>>, <<"metadataData", Var("metadataData")>> >>),
        Blockhash,
        PartialSign("releaseMint"),
        Send,
        Confirm("getConfirmTransaction"),
        Get("createdRelease", "/hubs/:hub/hubReleases/:hubRelease", "none"),
        Return("createdRelease", "release") >>]

\* initializeReleaseAndMint(client, hubPublicKey): returns {release, releaseBump,
\* releaseMint, hubRelease}; it builds and sends no transaction
initializeReleaseAndMint ==
    [catch |-> "false",
     body |-> <<
        Aw("client.useProgram"),
        Let("releaseMint", Always),
        Pda("release", <<Lit("nina-release"), Var("releaseMint")>>),
        PdaIf("hubRelease", HubReleaseSeeds(Arg("hubPublicKey"), Var("release")),
              Given("hubPublicKey")),
        Return("release", "release") >>]

releaseInit ==
    [catch |-> "error",
     body |-> <<
        Aw("client.useProgram"),
        Compute("paymentMint", "paymentMint"),
        Pda("releaseSigner", <<Arg("release")>>),
        Aw("createMintInstructions"),
        Ata("authorityTokenAccount", "authorityTokenAccountIx", Wallet, Var("paymentMint")),
        Ata("royaltyTokenAccount", "royaltyTokenAccountIx", Var("releaseSigner"),
            Var("paymentMint")),
        Ata("authorityPublishingCreditTokenAccount",
            "authorityPublishingCreditTokenAccountIx", Wallet, Lit("publishingCredit")),
        Compute("config", "config"),
        Pda("metadata", <<Lit("metadata"), Lit("metaplex"), Lit("releaseMint")>>),
        Compute("metadataData", "metadataData"),
        Build("releaseInit",
              << <<"release", Arg("release")>>,
                 <<"releaseSigner", Var("releaseSigner")>>,
                 <<"payer", Wallet>>, <<"authority", Wallet>>,
                 <<"authorityTokenAccount", Var("authorityTokenAccount")>>,
                 <<"royaltyTokenAccount", Var("royaltyTokenAccount")>> >>,
              <<"royaltyTokenAccountIx", "authorityTokenAccountIx",
                "authorityPublishingCreditTokenAccountIx">>,
              << <<"config", Var("config")>>, <<"metadataData", Var("metadataData")>> >>),
        Blockhash,
        PartialSign("releaseMint"),
        Send,
        Confirm("getConfirmTransaction"),
        Get("createdRelease", "/releases/:publicKey", "none"),
        Return("createdRelease", "release") >>]

\* closeRelease with the re-fetch moved ahead of the confirmation wait
closeReleaseRefetchFirst ==
    [catch |-> "error",
     body |-> <<
        Aw("client.useProgram"),
        Account("release", {<<"account", "release">>}),
        Build("releaseCloseEdition",
              << <<"authority", Wallet>>, <<"release", Arg("releasePublicKey")>>,
                 <<"releaseSigner", Chain("release.releaseSigner")>>,
                 <<"releaseMint", Chain("release.releaseMint")>> >>,
              <<>>, <<>>),
        Blockhash,
        Send,
        Get("closedRelease", "/releases/:publicKey", "none"),
        Confirm("getConfirmTransaction"),
        Return("closedRelease", "release") >>]

closeRelease ==
    [catch |-> "error",
     body |-> <<
        Aw("client.useProgram"),
        Account("release", {<<"account", "release">>}),
        Build("releaseCloseEdition",
              << <<"authority", Wallet>>, <<"release", Arg("releasePublicKey")>>,
                 <<"releaseSigner", Chain("release.releaseSigner")>>,
                 <<"releaseMint", Chain("release.releaseMint")>> >>,
              <<>>, <<>>),
        Blockhash,
        Send,
        Confirm("getConfirmTransaction"),
        Get("closedRelease", "/releases/:publicKey", "none"),
        Return("closedRelease", "release") >>]

collectRoyaltyForRelease ==
    [catch |-> "error",
     body |-> <<
        ReturnIf(Or(Not(Given("releasePublicKey")), Not(Given("recipient")))),
        Aw("client.useProgram"),
        Account("release.paymentMint", {<<"mint", "usdc">>}),
        Ata("authorityTokenAccount", "authorityTokenAccountIx", Wallet,
            Var("release.paymentMint")),
        Build("releaseRevenueShareCollect",
              << <<"authority", Wallet>>,
                 <<"authorityTokenAccount", Var("authorityTokenAccount")>>,
                 <<"release", Arg("releasePublicKey")>>,
                 <<"releaseMint", Chain("release.releaseMint")>>,
                 <<"releaseSigner", Chain("release.releaseSigner")>>,
                 <<"royaltyTokenAccount", Chain("release.royaltyTokenAccount")>> >>,
              <<"authorityTokenAccountIx">>,
              <<>>),
        Blockhash,
        Send,
        Confirm("getConfirmTransaction"),
        Get("collectedRelease", "/releases/:publicKey", "none"),
        Return("collectedRelease", "release") >>]

addRoyaltyRecipient ==
    [catch |-> "error",
     body |-> <<
        Aw("client.useProgram"),
        Account("release.paymentMint", {<<"mint", "usdc">>}),
        Ata("newRoyaltyRecipientTokenAccount", "newRoyaltyRecipientTokenAccountIx",
            Arg("recipient"), Var("release.paymentMint")),
        Ata("authorityTokenAccount", "authorityTokenAccountIx", Wallet,
            Var("release.paymentMint")),
        \* request.instructions = [newRoyaltyRecipientTokenAccountIx]
        Throw("ReferenceError: request is not defined",
              Defined("newRoyaltyRecipientTokenAccountIx")),
        \* request.instructions = [authorityTokenAccountIx]
        Throw("ReferenceError: request is not defined", Defined("authorityTokenAccountIx")),
        Build("releaseRevenueShareTransfer",
              << <<"authority", Wallet>>,
                 <<"authorityTokenAccount", Var("authorityTokenAccount")>>,
                 <<"release", Arg("releasePublicKey")>>,
                 <<"royaltyTokenAccount", Chain("release.royaltyTokenAccount")>>,
                 <<"newRoyaltyRecipient", Arg("recipient")>>,
                 <<"newRoyaltyRecipientTokenAccount",
                   Var("newRoyaltyRecipientTokenAccount")>> >>,
              <<>>,
              << <<"updateAmount", Scaled("percentShare")>> >>),
        Blockhash,
        Send,
        Confirm("getConfirmTransaction"),
        Get("updatedRelease", "/releases/:publicKey", "none"),
        Return("updatedRelease", "release") >>]

(* --------------------------- Hub module -------------------------------- *)

HubFetchAll ==
    [catch |-> "none",
     body |-> << Get("response", "/hubs", "fetchAll"),
                 Return("response", "") >>]

hubInit ==
    [catch |-> "undefined",
     body |-> <<
        Aw("client.useProgram"),
        \* hubParams.publishFee = new anchor.BN(hubParams.publishFee * 10000), and referralFee
        Assign("publishFee", "times10000"),
        Assign("referralFee", "times10000"),
        Pda("hub", <<Lit("nina-hub"), Param("handle")>>),
        Pda("hubSigner", HubSignerSeeds(Var("hub"))),
        Assign("hubSignerBump", "bump"),
        Pda("hubCollaborator", HubCollaboratorSeeds(Var("hub"), Wallet)),
        Ata("usdcVault", "usdcVaultIx", Var("hubSigner"), Lit("usdc")),
        Ata("wrappedSolVault", "wrappedSolVaultIx", Var("hubSigner"), Lit("wsol")),
        Build("hubInit",
              << <<"authority", Wallet>>, <<"hub", Var("hub")>>,
                 <<"hubSigner", Var("hubSigner")>>,
                 <<"hubCollaborator", Var("hubCollaborator")>> >>,
              <<"usdcVaultIx", "wrappedSolVaultIx">>,
              << <<"publishFee", Param("publishFee")>>,
                 <<"referralFee", Param("referralFee")>>,
                 <<"hubSignerBump", Param("hubSignerBump")>> >>),
        Blockhash,
        Send,
        Confirm("getConfirmTransaction"),
        Get("createdHub", "/hubs/:publicKeyOrHandle", "none"),
        Return("createdHub", "") >>]

hubUpdateConfig ==
    [catch |-> "false",
     body |-> <<
        Aw("client.useProgram"),
        Get("hub", "/hubs/:publicKeyOrHandle", "none"),
        Build("hubUpdateConfig",
              << <<"authority", Wallet>>, <<"hub", Arg("hubPublicKey")>> >>,
              <<>>,
              << <<"handle", Var("hub")>> >>),
        Blockhash,
        Send,
        Confirm("getConfirmTransaction"),
        Aw("axios.get hubs tx"),
        Get("updatedHub", "/hubs/:publicKeyOrHandle", "none"),
        Return("updatedHub", "") >>]

hubAddCollaborator ==
    [catch |-> "false",
     body |-> <<
        Aw("client.useProgram"),
        Get("hub", "/hubs/:publicKeyOrHandle", "none"),
        Pda("hubCollaborator", HubCollaboratorSeeds(Arg("hubPublicKey"), Arg("recipient"))),
        Pda("authorityHubCollaborator", HubCollaboratorSeeds(Arg("hubPublicKey"), Wallet)),
        Build("hubAddCollaborator",
              << <<"authority", Wallet>>,
                 <<"authorityHubCollaborator", Var("authorityHubCollaborator")>>,
                 <<"hub", Arg("hubPublicKey")>>,
                 <<"hubCollaborator", Var("hubCollaborator")>>,
                 <<"collaborator", Arg("recipient")>> >>,
              <<>>,
              << <<"handle", Var("hub")>> >>),
        Blockhash,
        Send,
        Confirm("getConfirmTransaction"),
        Aw("axios.get hubs collaborators"),
        Get("collaborator", "/hubs/:hub/collaborators/:collaborator", "none"),
        Return("collaborator", "") >>]

hubUpdateCollaboratorPermission ==
    [catch |-> "false",
     body |-> <<
        Aw("client.useProgram"),
        Get("hub", "/hubs/:publicKeyOrHandle", "none"),
        Pda("hubCollaborator", HubCollaboratorSeeds(Arg("hubPublicKey"), Arg("recipient"))),
        Pda("authorityHubCollaborator", HubCollaboratorSeeds(Arg("hubPublicKey"), Wallet)),
        Build("hubUpdateCollaboratorPermissions",
              << <<"authority", Wallet>>,
                 <<"authorityHubCollaborator", Var("authorityHubCollaborator")>>,
                 <<"hub", Arg("hubPublicKey")>>,
                 <<"hubCollaborator", Var("hubCollaborator")>>,
                 <<"collaborator", Arg("recipient")>> >>,
              <<>>,
              << <<"handle", Var("hub")>> >>),
        Blockhash,
        Send,
        Confirm("getConfirmTransaction"),
        Get("collaborator", "/hubs/:hub/collaborators/:collaborator", "none"),
        Return("collaborator", "") >>]

hubRemoveCollaborator ==
    [catch |-> "false",
     body |-> <<
        Aw("client.useProgram"),
        Get("hub", "/hubs/:publicKeyOrHandle", "none"),
        Pda("hubCollaborator", HubCollaboratorSeeds(Arg("hubPublicKey"), Arg("recipient"))),
        Build("hubRemoveCollaborator",
              << <<"authority", Wallet>>, <<"hub", Arg("hubPublicKey")>>,
                 <<"hubCollaborator", Var("hubCollaborator")>>,
                 <<"collaborator", Arg("recipient")>> >>,
              <<>>,
              << <<"handle", Var("hub")>> >>),
        Blockhash,
        Send,
        Confirm("getConfirmTransaction"),
        Aw("axios.get hubs collaborators"),
        Get("collaborator", "/hubs/:hub/collaborators/:collaborator", "none"),
        Return("collaborator", "") >>]

hubContentToggleVisibility ==
    [catch |-> "false",
     body |-> <<
        Aw("client.useProgram"),
        Get("hub", "/hubs/:publicKeyOrHandle", "none"),
        Pda("hubContent", HubContentSeeds(Arg("hubPublicKey"), Arg("releasePublicKey"))),
        Pda("hubChildPublicKey",
            <<HubChildTag, Arg("hubPublicKey"), Arg("releasePublicKey")>>),
        Build("hubContentToggleVisibility",
              << <<"authority", Wallet>>, <<"hub", Arg("hubPublicKey")>>,
                 <<"hubContent", Var("hubContent")>>,
                 <<"contentAccount", Arg("releasePublicKey")>> >>,
              <<>>,
              << <<"handle", Var("hub")>> >>),
        Blockhash,
        Send,
        Confirm("getParsedTransaction finalized"),
        Return("hubChildPublicKey", "") >>]

\* hubAddRelease returning the address it derived instead of re-fetching
hubAddReleaseNoRefetch ==
    [catch |-> "false",
     body |-> <<
        Aw("client.useProgram"),
        Get("hub", "/hubs/:publicKeyOrHandle", "none"),
        Pda("hubRelease", HubReleaseSeeds(Arg("hubPublicKey"), Arg("releasePublicKey"))),
        Pda("hubContent", HubContentSeeds(Arg("hubPublicKey"), Arg("releasePublicKey"))),
        Pda("hubCollaborator", HubCollaboratorSeeds(Arg("hubPublicKey"), Wallet)),
        Throw("ReferenceError: request is not defined", Given("fromHub")),
        Build("hubAddRelease",
              << <<"authority", Wallet>>, <<"hub", Arg("hubPublicKey")>>,
                 <<"hubRelease", Var("hubRelease")>>,
                 <<"hubContent", Var("hubContent")>>,
                 <<"hubCollaborator", Var("hubCollaborator")>>,
                 <<"release", Arg("releasePublicKey")>> >>,
              <<>>,
              << <<"handle", Var("hub")>> >>),
        Blockhash,
        Send,
        Confirm("getConfirmTransaction"),
        Return("hubRelease", "") >>]

hubAddRelease ==
    [catch |-> "false",
     body |-> <<
        Aw("client.useProgram"),
        Get("hub", "/hubs/:publicKeyOrHandle", "none"),
        Pda("hubRelease", HubReleaseSeeds(Arg("hubPublicKey"), Arg("releasePublicKey"))),
        Pda("hubContent", HubContentSeeds(Arg("hubPublicKey"), Arg("releasePublicKey"))),
        Pda("hubCollaborator", HubCollaboratorSeeds(Arg("hubPublicKey"), Wallet)),
        \* if (fromHub) request.remainingAccounts = [...]
        Throw("ReferenceError: request is not defined", Given("fromHub")),
        Build("hubAddRelease",
              << <<"authority", Wallet>>, <<"hub", Arg("hubPublicKey")>>,
                 <<"hubRelease", Var("hubRelease")>>,
                 <<"hubContent", Var("hubContent")>>,
                 <<"hubCollaborator", Var("hubCollaborator")>>,
                 <<"release", Arg("releasePublicKey")>> >>,
              <<>>,
              << <<"handle", Var("hub")>> >>),
        Blockhash,
        Send,
        Confirm("getConfirmTransaction"),
        Get("hubReleaseData", "/hubs/:hub/hubReleases/:hubRelease", "none"),
        Return("hubReleaseData", "") >>]

postInitViaHub ==
    [catch |-> "false",
     body |-> <<
        Aw("client.useProgram"),
        Get("hub", "/hubs/:publicKeyOrHandle", "none"),
        Pda("post", <<Lit("nina-post"), Arg("hubPublicKey"), Lit("MD5(slug)")>>),
        Pda("hubPost", <<Lit("nina-hub-post"), Arg("hubPublicKey"), Var("post")>>),
        Pda("hubContent", HubContentSeeds(Arg("hubPublicKey"), Var("post"))),
        Pda("hubCollaborator", HubCollaboratorSeeds(Arg("hubPublicKey"), Wallet)),
        \* request.remainingAccounts = [{pubkey: fromHub, ...}]: set on the local request
        \* object, which the builder below is given only the accounts of
        Let("request.remainingAccounts", Given("fromHub")),
        PdaIf("referenceReleaseHubRelease",
              HubReleaseSeeds(Arg("hubPublicKey"), Arg("referenceRelease")),
              Given("referenceRelease")),
        PdaIf("referenceReleaseHubContent",
              HubContentSeeds(Arg("hubPublicKey"), Arg("referenceRelease")),
              Given("referenceRelease")),
        BuildIf("postInitViaHubWithReferenceRelease",
              << <<"author", Wallet>>, <<"hub", Arg("hubPublicKey")>>,
                 <<"post", Var("post")>>, <<"hubPost", Var("hubPost")>>,
                 <<"hubContent", Var("hubContent")>>,
                 <<"hubCollaborator", Var("hubCollaborator")>>,
                 <<"referenceRelease", Arg("referenceRelease")>>,
                 <<"referenceReleaseHubRelease", Var("referenceReleaseHubRelease")>>,
                 <<"referenceReleaseHubContent", Var("referenceReleaseHubContent")>> >>,
              <<>>,
              << <<"handle", Var("hub")>> >>,
              Given("referenceRelease")),
        BuildIf("postInitViaHub",
              << <<"author", Wallet>>, <<"hub", Arg("hubPublicKey")>>,
                 <<"post", Var("post")>>, <<"hubPost", Var("hubPost")>>,
                 <<"hubContent", Var("hubContent")>>,
                 <<"hubCollaborator", Var("hubCollaborator")>> >>,
              <<>>,
              << <<"handle", Var("hub")>> >>,
              Not(Given("referenceRelease"))),
        Blockhash,
        Send,
        Confirm("getConfirmTransaction"),
        \* return {hubPost, referenceReleaseHubRelease}
        Return("hubPost", "hubPost") >>]

postUpdateViaHub ==
    [catch |-> "false",
     body |-> <<
        Aw("client.useProgram"),
        Pda("post", <<Lit("nina-post"), Arg("hubPublicKey"), Lit("slug")>>),
        Pda("hubPost", <<Lit("nina-hub-post"), Arg("hubPublicKey"), Var("post")>>),
        Pda("hubCollaborator", HubCollaboratorSeeds(Arg("hubPublicKey"), Wallet)),
        \* .postUpdateViaHubPost(hub.handle, slug, uri): no hub is declared in this function
        Throw("ReferenceError: hub is not defined", Always),
        Build("postUpdateViaHubPost",
              << <<"author", Wallet>>, <<"hub", Arg("hubPublicKey")>>,
                 <<"post", Var("post")>>, <<"hubPost", Var("hubPost")>>,
                 <<"hubCollaborator", Var("hubCollaborator")>> >>,
              <<>>,
              << <<"handle", Var("hub")>> >>),
        Blockhash,
        Send,
        Confirm("getConfirmTransaction"),
        Return("hubPost", "") >>]

collectRoyaltyForReleaseViaHub ==
    [catch |-> "false",
     body |-> <<
        Aw("client.useProgram"),
        Account("hub", {<<"account", "hub">>}),
        Account("release.paymentMint", {<<"mint", "usdc">>}),
        Get("hubMetadata", "/hubs/:publicKeyOrHandle", "none"),
        Ata("hubWallet", "", Chain("hub.hubSigner"), Var("release.paymentMint")),
        Pda("hubRelease", HubReleaseSeeds(Arg("hubPublicKey"), Arg("releasePublicKey"))),
        Build("releaseRevenueShareCollectViaHub",
              << <<"authority", Wallet>>,
                 <<"royaltyTokenAccount", Chain("release.royaltyTokenAccount")>>,
                 <<"release", Arg("releasePublicKey")>>,
                 <<"hub", Arg("hubPublicKey")>>,
                 <<"hubRelease", Var("hubRelease")>>,
                 <<"hubSigner", Chain("hub.hubSigner")>>,
                 <<"hubWallet", Var("hubWallet")>> >>,
              <<>>,
              << <<"handle", Var("hubMetadata")>> >>),
        Blockhash,
        Send,
        Confirm("getConfirmTransaction"),
        \* return {hubRelease, recipient, paymentMint}
        Return("hubRelease", "hubRelease") >>]

hubWithdraw ==
    [catch |-> "false",
     body |-> <<
        Aw("client.useProgram"),
        Get("hub", "/hubs/:publicKeyOrHandle", "none"),
        Pda("hubSigner", HubSignerSeeds(Arg("hubPublicKey"))),
        Ata("withdrawTarget", "", Var("hubSigner"), Lit("usdc")),
        Ata("withdrawDestination", "", Wallet, Lit("usdc")),
        Aw("getParsedTokenAccountsByOwner"),
        Build("hubWithdraw",
              << <<"authority", Wallet>>, <<"hub", Arg("hubPublicKey")>>,
                 <<"hubSigner", Var("hubSigner")>>,
                 <<"withdrawTarget", Var("withdrawTarget")>>,
                 <<"withdrawDestination", Var("withdrawDestination")>> >>,
              <<>>,
              << <<"handle", Var("hub")>> >>),
        Blockhash,
        Send,
        Confirm("getConfirmTransaction"),
        Return("true", "") >>]

\* the Hub module of the packaged older build
hubInitWithCredit ==
    [catch |-> "false",
     body |-> <<
        Aw("anchor.Program.at"),
        Assign("publishFee", "times10000"),
        Assign("referralFee", "times10000"),
        Pda("hub", <<Lit("nina-hub"), Param("handle")>>),
        Pda("hubSigner", HubSignerSeeds(Var("hub"))),
        Assign("hubSignerBump", "bump"),
        Pda("hubCollaborator", HubCollaboratorSeeds(Var("hub"), Wallet)),
        Ata("usdcVault", "usdcVaultIx", Var("hubSigner"), Lit("usdc")),
        Ata("wrappedSolVault", "wrappedSolVaultIx", Var("hubSigner"), Lit("wsol")),
        Ata("authorityHubCreditTokenAccount", "", Wallet, Lit("hubCredit")),
        Build("hubInitWithCredit",
              << <<"authority", Wallet>>, <<"hub", Var("hub")>>,
                 <<"hubSigner", Var("hubSigner")>>,
                 <<"hubCollaborator", Var("hubCollaborator")>>,
                 <<"authorityHubCreditTokenAccount",
                   Var("authorityHubCreditTokenAccount")>> >>,
              <<"usdcVaultIx", "wrappedSolVaultIx">>,
              << <<"publishFee", Param("publishFee")>>,
                 <<"referralFee", Param("referralFee")>>,
                 <<"hubSignerBump", Param("hubSignerBump")>> >>),
        Rpc,
        Confirm("getParsedTransaction confirmed"),
        \* await this.fetch(...): this is undefined in a module-level arrow function
        Throw("TypeError: this is undefined", Always),
        Get("fetched", "/hubs/:publicKeyOrHandle", "none"),
        \* return hub.toBase58 (the method, not its result)
        Return("hub.toBase58", "") >>]

(* ------------------------- Exchange module ----------------------------- *)

ExchangeFetchAll ==
    [catch |-> "none",
     body |-> << Get("response", "/exchanges", "fetchAll"),
                 Return("response", "") >>]

exchangeInit ==
    [catch |-> "false",
     body |-> <<
        Aw("client.useProgram"),
        Account("releaseAccount.paymentMint", {<<"mint", "usdc">>, <<"mint", "wsol">>}),
        Let("exchange", Always),
        Pda("exchangeSigner", <<Var("exchange")>>),
        Ata("initializerSendingTokenAccount", "initializerSendingTokenAccountIx", Wallet,
            Lit("initializerSendingMint")),
        Ata("exchangeEscrowTokenAccount", "exchangeEscrowTokenAccountIx",
            Var("exchangeSigner"), Lit("initializerSendingMint")),
        Ata("initializerExpectedTokenAccount", "initializerExpectedTokenAccountIx", Wallet,
            Lit("initializerExpectedMint")),
        Aw("exchange.createInstruction"),
        Let("exchangeCreateIx", Always),
        Throw("ReferenceError: wrapSol is not defined",
              And(IsSol("releaseAccount.paymentMint"), Not(Given("isSelling")))),
        Build("exchangeInit",
              << <<"initializer", Wallet>>,
                 <<"initializerExpectedTokenAccount", Var("initializerExpectedTokenAccount")>>,
                 <<"initializerSendingTokenAccount", Var("initializerSendingTokenAccount")>>,
                 <<"exchangeEscrowTokenAccount", Var("exchangeEscrowTokenAccount")>>,
                 <<"exchangeSigner", Var("exchangeSigner")>>,
                 <<"exchange", Var("exchange")>>,
                 <<"release", Arg("releasePublicKey")>> >>,
              <<"exchangeCreateIx", "exchangeEscrowTokenAccountIx",
                "initializerExpectedTokenAccountIx", "initializerSendingTokenAccountIx">>,
              << <<"isSelling", Arg("isSelling")>> >>),
        Blockhash,
        PartialSign("exchange"),
        Send,
        Confirm("getParsedTransaction confirmed"),
        \* return {txid, releaseAccount, publicKey, releaseMint}
        Return("txid", "txid") >>]

exchangeAccept ==
    [catch |-> "false",
     body |-> <<
        Aw("client.useProgram"),
        Account("release.paymentMint", {<<"mint", "usdc">>, <<"mint", "wsol">>}),
        Account("exchangeAccount", {<<"account", "exchange">>}),
        Ata("takerSendingTokenAccount", "takerSendingTokenAccountIx", Wallet,
            Chain("exchangeAccount.initializerExpectedMint")),
        Ata("takerExpectedTokenAccount", "takerExpectedTokenAccountIx", Wallet,
            Chain("exchangeAccount.initializerSendingMint")),
        Ata("initializerExpectedTokenAccount", "initializerExpectedTokenAccountIx",
            Chain("exchangeAccount.initializer"),
            Chain("exchangeAccount.initializerExpectedMint")),
        Let("exchangeHistory", Always),
        Aw("exchangeHistory.createInstruction"),
        Let("createExchangeHistoryIx", Always),
        Throw("ReferenceError: wrapSol is not defined",
              And(IsSol("release.paymentMint"), Given("isSelling"))),
        Build("exchangeAccept",
              << <<"initializer", Chain("exchangeAccount.initializer")>>,
                 <<"initializerExpectedTokenAccount", Var("initializerExpectedTokenAccount")>>,
                 <<"takerExpectedTokenAccount", Var("takerExpectedTokenAccount")>>,
                 <<"takerSendingTokenAccount", Var("takerSendingTokenAccount")>>,
                 <<"taker", Wallet>>,
                 <<"exchangeHistory", Var("exchangeHistory")>>,
                 <<"release", Arg("releasePublicKey")>> >>,
              <<"createExchangeHistoryIx", "takerSendingTokenAccountIx",
                "takerExpectedTokenAccountIx", "initializerExpectedTokenAccountIx">>,
              <<>>),
        Blockhash,
        PartialSign("exchangeHistory"),
        Send,
        Confirm("getParsedTransaction finalized"),
        Return("txid", "") >>]

exchangeCancel ==
    [catch |-> "none",
     body |-> <<
        Aw("client.useProgram"),
        Account("exchange.initializerSendingMint", {<<"mint", "usdc">>, <<"mint", "wsol">>}),
        Ata("initializerReturnTokenAccount", "initializerReturnTokenAccountIx", Wallet,
            Var("exchange.initializerSendingMint")),
        BuildIf("exchangeCancelSol",
              << <<"initializer", Wallet>>,
                 <<"initializerSendingTokenAccount", Var("initializerReturnTokenAccount")>> >>,
              <<"initializerReturnTokenAccountIx">>, <<>>,
              IsSol("exchange.initializerSendingMint")),
        BuildIf("exchangeCancel",
              << <<"initializer", Wallet>>,
                 <<"initializerSendingTokenAccount", Var("initializerReturnTokenAccount")>> >>,
              <<"initializerReturnTokenAccountIx">>, <<>>,
              Not(IsSol("exchange.initializerSendingMint"))),
        Blockhash,
        Send,
        Confirm("getParsedTransaction confirmed"),
        \* return {exchangePubkey, txid}
        Return("txid", "txid") >>]

(* ----------------------------- the SDK --------------------------------- *)

ReleaseOps == {"Release.fetchAll", "fetchCollectors", "fetchHubs", "fetchExchanges",
               "fetchRevenueShareRecipients", "purchaseViaHub", "releasePurchase",
               "releaseInitViaHub", "initializeReleaseAndMint", "releaseInit", "closeRelease", "collectRoyaltyForRelease",
               "addRoyaltyRecipient"}

HubOps == {"Hub.fetchAll", "hubInit", "hubUpdateConfig", "hubAddCollaborator",
           "hubUpdateCollaboratorPermission", "hubRemoveCollaborator",
           "hubContentToggleVisibility", "hubAddRelease", "postInitViaHub",
           "postUpdateViaHub", "collectRoyaltyForReleaseViaHub", "hubWithdraw",
           "hubInitWithCredit"}

ExchangeOps == {"Exchange.fetchAll", "exchangeInit", "exchangeAccept", "exchangeCancel"}

Ops == ReleaseOps \cup HubOps \cup ExchangeOps

FetchAllOps == {"Release.fetchAll", "Hub.fetchAll", "Exchange.fetchAll"}

\* the fetches of the Release module that are documented to take pagination options
PaginatedOps == {"fetchCollectors", "fetchHubs", "fetchExchanges",
                 "fetchRevenueShareRecipients"}

\* the operations that build and submit a transaction
TxOps == Ops \ (FetchAllOps \cup PaginatedOps \cup {"initializeReleaseAndMint"})

Def(o) ==
    CASE o = "Release.fetchAll" -> ReleaseFetchAll
      [] o = "fetchCollectors" -> fetchCollectors
      [] o = "fetchHubs" -> fetchHubs
      [] o = "fetchExchanges" -> fetchExchanges
      [] o = "fetchRevenueShareRecipients" -> fetchRevenueShareRecipients
      [] o = "purchaseViaHub" -> purchaseViaHub
      [] o = "releasePurchase" -> releasePurchase
      [] o = "releaseInitViaHub" -> releaseInitViaHub
      [] o = "initializeReleaseAndMint" -> initializeReleaseAndMint
      [] o = "releaseInit" -> releaseInit
      [] o = "closeRelease" -> closeRelease
      [] o = "collectRoyaltyForRelease" -> collectRoyaltyForRelease
      [] o = "addRoyaltyRecipient" -> addRoyaltyRecipient
      [] o = "Hub.fetchAll" -> HubFetchAll
      [] o = "hubInit" -> hubInit
      [] o = "hubUpdateConfig" -> hubUpdateConfig
      [] o = "hubAddCollaborator" -> hubAddCollaborator
      [] o = "hubUpdateCollaboratorPermission" -> hubUpdateCollaboratorPermission
      [] o = "hubRemoveCollaborator" -> hubRemoveCollaborator
      [] o = "hubContentToggleVisibility" -> hubContentToggleVisibility
      [] o = "hubAddRelease" -> hubAddRelease
      [] o = "postInitViaHub" -> postInitViaHub
      [] o = "postUpdateViaHub" -> postUpdateViaHub
      [] o = "collectRoyaltyForReleaseViaHub" -> collectRoyaltyForReleaseViaHub
      [] o = "hubWithdraw" -> hubWithdraw
      [] o = "hubInitWithCredit" -> hubInitWithCredit
      [] o = "Exchange.fetchAll" -> ExchangeFetchAll
      [] o = "exchangeInit" -> exchangeInit
      [] o = "exchangeAccept" -> exchangeAccept
      [] o = "exchangeCancel" -> exchangeCancel

Body(o) == Def(o).body

(* ---------------------------- arguments -------------------------------- *)

\* a pagination field: <<>> when not given, <<v>> when given
PageField == {<<>>} \cup {<<n>> : n \in 0..MaxPage}
SortField == {<<>>, <<"asc">>, <<"desc">>}
Paginations == [limit : PageField, offset : PageField, sort : SortField]
NoPagination == [limit |-> <<>>, offset |-> <<>>, sort |-> <<>>]

NoObject == [publishFee |-> 0, referralFee |-> 0, hubSignerBump |-> "unset"]

\* hubParams: 0 when the operation takes none, else the caller's object in the heap;
\* given: what that object held when the call was made
\* what a caller means to give for a release: the strings, short and long
ShortLabel ==
    [artist |-> Str(<<"d", "B">>), title |-> Str(<<"P", "a", "n">>),
     catalogNumber |-> Str(<<"T", "0", "4">>), metadataUri |-> Str(<<"a", "r">>)]
LongLabel ==
    [artist |-> Str([i \in 1..20 |-> "a"]), title |-> Str([i \in 1..20 |-> "t"]),
     catalogNumber |-> Str([i \in 1..12 |-> "N"]), metadataUri |-> Str(<<"a", "r">>)]

\* the values of artist, title, catalogNumber, metadataUri and isUsdc a caller means
Named == {[artist |-> l.artist, title |-> l.title, catalogNumber |-> l.catalogNumber,
           metadataUri |-> l.metadataUri, isUsdc |-> Bool(b)] :
             l \in {ShortLabel, LongLabel}, b \in BOOLEAN}

\* the order in which the doc comments of releaseInit and releaseInitViaHub list them
DocumentedOrder == <<"artist", "title", "catalogNumber", "metadataUri", "isUsdc">>

\* the values as the caller places them in the call, following an order of names
Positional(order, named) == [i \in DOMAIN order |-> named[order[i]]]

\* hubParams: 0 when the operation takes none, else the caller's object in the heap;
\* given: what that object held when the call was made;
\* pos: the arguments after resalePercentage, by position; named, order: what the
\* caller meant by them and whose order the caller followed
NoArgs ==
    [hubPublicKey |-> "H1", releasePublicKey |-> "R1", release |-> "R1",
     recipient |-> "none", fromHub |-> "none", referenceRelease |-> "none",
     isSelling |-> "false", percentShare |-> 0, pagination |-> NoPagination,
     hubParams |-> 0, given |-> NoObject, type |-> "Release",
     pos |-> <<>>, named |-> [n \in {} |-> <<>>], order |-> "none",
     amount |-> 0, isOpen |-> FALSE]

\* the parameters op o declares after resalePercentage
ParamsOf(o) == IF o = "releaseInitViaHub" THEN ReleaseInitViaHubParams ELSE ReleaseInitParams

TakesHubParams == {"hubInit", "hubInitWithCredit"}

\* the argument lists a caller may give to operation o (hubParams is bound by Invoke)
ArgsOf(o) ==
    CASE o \in FetchAllOps \cup PaginatedOps ->
            {[NoArgs EXCEPT !.pagination = p] : p \in Paginations}
      [] o = "collectRoyaltyForRelease" ->
            {[NoArgs EXCEPT !.recipient = r] : r \in {"none", "W", "K1"}}
      [] o = "addRoyaltyRecipient" ->
            {[NoArgs EXCEPT !.recipient = r, !.percentShare = s] :
                r \in {"W", "K1"}, s \in 0..MaxShare}
      [] o \in {"hubAddCollaborator", "hubUpdateCollaboratorPermission",
                "hubRemoveCollaborator"} ->
            {[NoArgs EXCEPT !.recipient = "K1"]}
      [] o = "hubContentToggleVisibility" ->
            {[NoArgs EXCEPT !.type = t] : t \in {"Release", "Post"}}
      [] o = "initializeReleaseAndMint" ->
            {[NoArgs EXCEPT !.hubPublicKey = h] : h \in {"none", "H1"}}
      [] o = "hubAddRelease" ->
            {[NoArgs EXCEPT !.fromHub = f] : f \in {"none", "H2"}}
      [] o = "postInitViaHub" ->
            {[NoArgs EXCEPT !.fromHub = f, !.referenceRelease = r] :
                f \in {"none", "H2"}, r \in {"none", "R2"}}
      [] o \in {"exchangeInit", "exchangeAccept"} ->
            {[NoArgs EXCEPT !.isSelling = b] : b \in {"false", "true"}}
      [] o = "releaseInit" ->
            {[NoArgs EXCEPT !.named = n, !.order = "documented",
                            !.pos = Positional(DocumentedOrder, n),
                            !.amount = a, !.isOpen = b] :
                n \in Named, a \in 0..MaxAmount, b \in BOOLEAN}
      [] o = "releaseInitViaHub" ->
            {[NoArgs EXCEPT !.named = n, !.order = w,
                            !.pos = Positional(IF w = "documented" THEN DocumentedOrder
                                               ELSE ReleaseInitViaHubParams, n),
                            !.amount = a, !.isOpen = b] :
                n \in Named, w \in {"documented", "declared"},
                a \in 0..MaxAmount, b \in BOOLEAN}
      [] OTHER -> {NoArgs}

(* ------------------------------ state ---------------------------------- *)

NoEnv == [v \in {} |-> <<>>]
NoTx == [method |-> "none", accounts |-> NoEnv, pre |-> <<>>, params |-> NoEnv,
         remaining |-> <<>>, signers |-> {}]
NoQuery == [limit |-> -1, offset |-> -1, sort |-> "none"]
\* kind: "value" (the body returned var, holding val, as {wrap: val} when wrap is not ""),
\* "error" ({error}), "false", "undefined", "rejected"; threw: the step that threw
Idle == [kind |-> "idle", var |-> "", wrap |-> "", val |-> <<>>, threw |-> <<>>]
Pending == [Idle EXCEPT !.kind = "pending"]
\* a call slot that is never used
Off == [Idle EXCEPT !.kind = "off"]

\* a hubParams object as a caller makes it: the fees in percent
HubParamsObjects ==
    [publishFee : 1..MaxFee, referralFee : 1..MaxFee, hubSignerBump : {"unset"}]

InitCalls ==
    /\ op = [c \in Calls |-> "none"]
    /\ pc = [c \in Calls |-> 0]
    /\ args = [c \in Calls |-> NoArgs]
    /\ env = [c \in Calls |-> NoEnv]
    /\ tx = [c \in Calls |-> NoTx]
    /\ trace = [c \in Calls |-> <<>>]
    /\ handed = [c \in Calls |-> 0]
    /\ query = [c \in Calls |-> NoQuery]
    /\ heap = <<>>

\* one call at a time
Init ==
    /\ InitCalls
    /\ result = [c \in Calls |-> IF c = "c1" THEN Idle ELSE Off]

\* two calls in flight
InitConc ==
    /\ InitCalls
    /\ result = [c \in Calls |-> Idle]

(* --------------------------- evaluation -------------------------------- *)

RECURSIVE Holds(_, _)
Holds(c, k) ==
    CASE k[1] = "always" -> TRUE
      [] k[1] = "defined" -> k[2] \in DOMAIN env[c]
      [] k[1] = "given" -> args[c][k[2]] \notin {"none", "false"}
      [] k[1] = "is" -> k[2] \in DOMAIN env[c] /\ env[c][k[2]] = k[3]
      [] k[1] = "not" -> ~Holds(c, k[2])
      [] k[1] = "and" -> Holds(c, k[2]) /\ Holds(c, k[3])
      [] k[1] = "or" -> Holds(c, k[2]) \/ Holds(c, k[3])

\* percentShare * 10000, publishFee * 10000
Times10000(n) == n * 10000

\* type.toLowerCase(), for the content types 'Release' and 'Post'
ToLowerCase(t) == CASE t = "Release" -> "release" [] t = "Post" -> "post"

Eval(c, e) ==
    CASE e[1] = "wallet" -> <<"key", "W">>
      [] e[1] = "lit" -> e
      [] e[1] = "chain" -> e
      [] e[1] = "arg" -> <<"key", args[c][e[2]]>>
      [] e[1] = "var" -> IF e[2] \in DOMAIN env[c] THEN env[c][e[2]] ELSE <<"undefined">>
      [] e[1] = "hubChildTag" -> <<"lit", "nina-hub-" \o ToLowerCase(args[c].type)>>
      [] e[1] = "scaled" -> <<"num", Times10000(args[c][e[2]])>>
      [] e[1] = "param" ->
            IF e[2] = "handle" THEN <<"handle", args[c].hubParams>>
            ELSE IF e[2] = "hubSignerBump" THEN <<"bump", heap[args[c].hubParams][e[2]]>>
            ELSE <<"num", heap[args[c].hubParams][e[2]]>>

EvalSeq(c, es) == [i \in DOMAIN es |-> Eval(c, es[i])]

\* {name: value} from a sequence of <<name, expression>>
Bind(c, pairs) ==
    [n \in {pairs[i][1] : i \in DOMAIN pairs} |->
        Eval(c, pairs[CHOOSE i \in DOMAIN pairs : pairs[i][1] = n][2])]

\* the instructions among names that hold a value, in order
RECURSIVE Instructions(_, _)
Instructions(c, names) ==
    IF names = <<>> THEN <<>>
    ELSE IF Head(names) \in DOMAIN env[c]
         THEN <<env[c][Head(names)]>> \o Instructions(c, Tail(names))
         ELSE Instructions(c, Tail(names))

\* the value bound to the parameter called name in call c
ParamOf(c, name) ==
    args[c].pos[CHOOSE i \in DOMAIN ParamsOf(op[c]) : ParamsOf(op[c])[i] = name]

\* the value of the expression named f, in call c
Computed(c, f) ==
    CASE f = "paymentMint" -> PaymentMint(ParamOf(c, "isUsdc"))
      [] f = "config" -> Config(args[c].isOpen, args[c].amount)
      [] f = "metadataData" ->
            MetadataData(ParamOf(c, "artist"), ParamOf(c, "title"),
                         ParamOf(c, "catalogNumber"), ParamOf(c, "metadataUri"))

Cur(c) == Body(op[c])[pc[c]]

\* call c is at a step of this kind, whose condition holds
At(c, kind) ==
    /\ result[c].kind = "pending"
    /\ Cur(c)[1] = kind
    /\ Holds(c, Cur(c)[3])

Bound(c, v, x) == [env EXCEPT ![c] = (v :> x) @@ env[c]]

Logged(c) == [trace EXCEPT ![c] = Append(@, <<Cur(c)[1], Cur(c)[2]>>)]

Advance(c) == pc' = [pc EXCEPT ![c] = @ + 1]

\* what the caller gets when a step throws: the catch block's value, or the rejection
Caught(o) ==
    CASE Def(o).catch = "error" -> [Idle EXCEPT !.kind = "error"]
      [] Def(o).catch = "false" -> [Idle EXCEPT !.kind = "false"]
      [] Def(o).catch = "undefined" -> [Idle EXCEPT !.kind = "undefined"]
      [] Def(o).catch = "none" -> [Idle EXCEPT !.kind = "rejected"]

\* the call is over; env keeps the locals as they were when it ended
Finish(c, r) ==
    /\ result' = [result EXCEPT ![c] = r]
    /\ pc' = [pc EXCEPT ![c] = 0]
    /\ env' = env

\* a catch block that leaves the call at the step that threw, to run it again
FailRetry(c) ==
    /\ result' = result
    /\ pc' = pc
    /\ env' = env

\* the step at pc throws: control goes to the catch block, if there is one
Fail(c) == Finish(c, [Caught(op[c]) EXCEPT !.threw = <<Cur(c)[1], Cur(c)[2]>>])

(* ----------------------------- actions --------------------------------- *)

\* The operations call slot c may run.  The second call in flight is a hubInit: it is
\* given a caller's object and writes to it; no body outside TakesHubParams writes
\* anything but its own locals.
Scope(c) == IF c = "c1" THEN Ops ELSE {"hubInit"}

\* The argument lists operation o is called with.  The arguments of the two release
\* initialisations are explored one call at a time; with a second call in flight each
\* is called with one list, in the order it declares.
ArgsIn(o) ==
    IF result["c2"].kind # "off" /\ o \in {"releaseInit", "releaseInitViaHub"}
    THEN {a \in ArgsOf(o) :
            /\ a.named.artist = ShortLabel.artist /\ a.named.isUsdc = Bool(TRUE)
            /\ a.amount = 0 /\ a.isOpen
            /\ a.order = IF o = "releaseInit" THEN "documented" ELSE "declared"}
    ELSE ArgsOf(o)

\* a caller calls operation o.  hubInit is given a hubParams object: a new one, or one
\* the caller has already passed to another call.
Invoke(c) ==
    /\ result[c].kind = "idle"
    /\ \E o \in Scope(c) : \E a \in ArgsIn(o) :
          /\ op' = [op EXCEPT ![c] = o]
          /\ IF o \in TakesHubParams
             THEN \/ \E h \in HubParamsObjects :
                        /\ heap' = Append(heap, h)
                        /\ args' = [args EXCEPT ![c] =
                                      [a EXCEPT !.hubParams = Len(heap) + 1, !.given = h]]
                  \/ \E i \in DOMAIN heap :
                        /\ heap' = heap
                        /\ args' = [args EXCEPT ![c] =
                                      [a EXCEPT !.hubParams = i, !.given = heap[i]]]
             ELSE /\ heap' = heap
                  /\ args' = [args EXCEPT ![c] = a]
    /\ pc' = [pc EXCEPT ![c] = 1]
    /\ result' = [result EXCEPT ![c] = Pending]
    /\ UNCHANGED <<env, tx, trace, handed, query>>

\* a step inside an if whose condition is false
Skip(c) ==
    /\ result[c].kind = "pending"
    /\ ~Holds(c, Cur(c)[3])
    /\ Advance(c)
    /\ UNCHANGED <<op, args, env, tx, trace, handed, query, result, heap>>

\* await of an external call: it resolves, or it throws
Await(c) ==
    /\ At(c, "await")
    /\ \/ Advance(c) /\ UNCHANGED <<env, result>>
       \/ Fail(c)
    /\ UNCHANGED <<op, args, tx, trace, handed, query, heap>>

\* program.account.<x>.fetch and getUsdcBalance: the chain's answer, or a throw
FetchAccount(c) ==
    /\ At(c, "account")
    /\ \/ \E x \in Cur(c)[4] :
            /\ env' = Bound(c, Cur(c)[2], x)
            /\ Advance(c)
            /\ UNCHANGED result
       \/ Fail(c)
    /\ UNCHANGED <<op, args, tx, trace, handed, query, heap>>

\* findOrCreateAssociatedTokenAccount: [address, undefined] when the account exists,
\* [address, create instruction] when it does not
FindOrCreateAssociatedTokenAccount(c) ==
    /\ At(c, "ata")
    /\ LET acct == Cur(c)[2]
           ix == Cur(c)[4][1]
           owner == Eval(c, Cur(c)[4][2])
           mint == Eval(c, Cur(c)[4][3])
           address == <<"ata", owner, mint>>
       IN \/ /\ env' = Bound(c, acct, address)
             /\ Advance(c)
             /\ UNCHANGED result
          \/ /\ ix # ""
             /\ env' = [env EXCEPT ![c] =
                           (acct :> address) @@ (ix :> <<"createAta", owner, mint>>) @@ env[c]]
             /\ Advance(c)
             /\ UNCHANGED result
          \/ Fail(c)
    /\ UNCHANGED <<op, args, tx, trace, handed, query, heap>>

FindProgramAddress(c) ==
    /\ At(c, "pda")
    /\ \/ /\ env' = Bound(c, Cur(c)[2], <<"pda", EvalSeq(c, Cur(c)[4])>>)
          /\ Advance(c)
          /\ UNCHANGED result
       \/ Fail(c)
    /\ UNCHANGED <<op, args, tx, trace, handed, query, heap>>

LetLocal(c) ==
    /\ At(c, "let")
    /\ env' = Bound(c, Cur(c)[2], <<"local", Cur(c)[2]>>)
    /\ Advance(c)
    /\ UNCHANGED <<op, args, tx, trace, handed, query, result, heap>>

\* hubParams.<field> = ...: the write goes to the object the caller passed
AssignParam(c) ==
    /\ At(c, "assign")
    /\ LET o == args[c].hubParams
           f == Cur(c)[2]
       IN heap' = [heap EXCEPT ![o][f] =
                      IF Cur(c)[4] = "times10000" THEN Times10000(@) ELSE "set"]
    /\ Advance(c)
    /\ UNCHANGED <<op, args, env, tx, trace, handed, query, result>>

\* a const computed from the parameters; the expression may throw a TypeError
ComputeLocal(c) ==
    /\ At(c, "compute")
    /\ LET v == Computed(c, Cur(c)[4])
       IN IF v = <<"TypeError">>
          THEN Fail(c)
          ELSE /\ env' = Bound(c, Cur(c)[2], v)
               /\ Advance(c)
               /\ UNCHANGED result
    /\ UNCHANGED <<op, args, tx, trace, handed, query, heap>>

ThrowError(c) ==
    /\ At(c, "throw")
    /\ Fail(c)
    /\ UNCHANGED <<op, args, tx, trace, handed, query, heap>>

\* if (!releasePublicKey || !recipient) return;
ReturnEarly(c) ==
    /\ At(c, "returnIf")
    /\ Finish(c, [Idle EXCEPT !.kind = "undefined"])
    /\ UNCHANGED <<op, args, tx, trace, handed, query, heap>>

BuildTransaction(c) ==
    /\ At(c, "build")
    /\ \/ /\ tx' = [tx EXCEPT ![c] =
                      [method |-> Cur(c)[2],
                       accounts |-> Bind(c, Cur(c)[4][1]),
                       pre |-> Instructions(c, Cur(c)[4][2]),
                       params |-> Bind(c, Cur(c)[4][3]),
                       \* no builder chain calls .remainingAccounts(...)
                       remaining |-> <<>>,
                       signers |-> {}]]
          /\ Advance(c)
          /\ UNCHANGED <<env, result>>
       \/ Fail(c) /\ UNCHANGED tx
    /\ UNCHANGED <<op, args, trace, handed, query, heap>>

GetRecentBlockhash(c) ==
    /\ At(c, "blockhash")
    /\ \/ /\ trace' = Logged(c)
          /\ Advance(c)
          /\ UNCHANGED <<env, result>>
       \/ Fail(c) /\ UNCHANGED trace
    /\ UNCHANGED <<op, args, tx, handed, query, heap>>

\* a partialSign that leaves the transaction without the keypair's signature
PartialSignNothing(c) ==
    /\ At(c, "sign")
    /\ trace' = Logged(c)
    /\ Advance(c)
    /\ UNCHANGED <<op, args, env, tx, handed, query, result, heap>>

PartialSignTransaction(c) ==
    /\ At(c, "sign")
    /\ tx' = [tx EXCEPT ![c].signers = @ \cup {Cur(c)[2]}]
    /\ trace' = Logged(c)
    /\ Advance(c)
    /\ UNCHANGED <<op, args, env, handed, query, result, heap>>

\* provider.wallet.sendTransaction(tx, connection): the transaction is handed to the
\* wallet; the wallet returns a transaction id, or throws
SendTransaction(c) ==
    /\ At(c, "send")
    /\ handed' = [handed EXCEPT ![c] = @ + 1]
    /\ \/ /\ trace' = Logged(c)
          /\ env' = Bound(c, "txid", <<"txid", c>>)
          /\ Advance(c)
          /\ UNCHANGED result
       \/ Fail(c) /\ UNCHANGED trace
    /\ UNCHANGED <<op, args, tx, query, heap>>

\* .rpc(): anchor's provider sets the blockhash and the fee payer, has the wallet sign,
\* and sends
RpcTransaction(c) ==
    /\ At(c, "rpc")
    /\ handed' = [handed EXCEPT ![c] = @ + 1]
    /\ \/ /\ trace' = [trace EXCEPT ![c] =
                         @ \o << <<"blockhash", "rpc">>, <<"send", "rpc">> >>]
          /\ env' = Bound(c, "txid", <<"txid", c>>)
          /\ Advance(c)
          /\ UNCHANGED result
       \/ Fail(c) /\ UNCHANGED trace
    /\ UNCHANGED <<op, args, tx, query, heap>>

\* getConfirmTransaction(txid) or connection.getParsedTransaction(txid, commitment)
ConfirmTransaction(c) ==
    /\ At(c, "confirm")
    /\ \/ /\ trace' = Logged(c)
          /\ Advance(c)
          /\ UNCHANGED <<env, result>>
       \/ Fail(c) /\ UNCHANGED trace
    /\ UNCHANGED <<op, args, tx, handed, query, heap>>

\* NinaClient.get(path, query)
RestGet(c) ==
    /\ At(c, "get")
    /\ query' = [query EXCEPT ![c] =
                    IF Cur(c)[4][2] = "fetchAll" THEN FetchAllQuery(args[c].pagination)
                    ELSE IF Cur(c)[4][2] = "pagination" THEN PassQuery(args[c].pagination)
                    ELSE NoQuery]
    /\ \/ \E r \in RestVals :
            /\ env' = Bound(c, Cur(c)[2], <<"rest", r>>)
            /\ trace' = Logged(c)
            /\ Advance(c)
            /\ UNCHANGED result
       \/ Fail(c) /\ UNCHANGED trace
    /\ UNCHANGED <<op, args, tx, handed, heap>>

ReturnValue(c) ==
    /\ At(c, "return")
    /\ LET v == Cur(c)[2]
       IN Finish(c, [kind |-> "value", var |-> v, wrap |-> Cur(c)[4],
                     val |-> IF v \in DOMAIN env[c] THEN env[c][v] ELSE <<"local", v>>,
                     threw |-> <<>>])
    /\ UNCHANGED <<op, args, tx, trace, handed, query, heap>>

Next ==
    \E c \in Calls :
        \/ Invoke(c)
        \/ Skip(c)
        \/ Await(c)
        \/ FetchAccount(c)
        \/ FindOrCreateAssociatedTokenAccount(c)
        \/ FindProgramAddress(c)
        \/ LetLocal(c)
        \/ ComputeLocal(c)
        \/ AssignParam(c)
        \/ ThrowError(c)
        \/ ReturnEarly(c)
        \/ BuildTransaction(c)
        \/ GetRecentBlockhash(c)
        \/ PartialSignTransaction(c)
        \/ SendTransaction(c)
        \/ RpcTransaction(c)
        \/ ConfirmTransaction(c)
        \/ RestGet(c)
        \/ ReturnValue(c)

\* one call at a time
Spec == Init /\ [][Next]_vars

\* two calls interleaved at their steps
SpecConc == InitConc /\ [][Next]_vars

(* ------------------------------ claims --------------------------------- *)

\* the call is over
Done(c) == result[c].kind \notin {"idle", "pending", "off"}

\* the call returned from its try body
Succeeded(c) == result[c].kind = "value"

\* an event of this kind is in the call's trace
Has(c, kind) == \E i \in DOMAIN trace[c] : trace[c][i][1] = kind

\* an event of this kind is in the call's trace before position i
Before(c, kind, i) == \E j \in 1..(i - 1) : trace[c][j][1] = kind

\* the step kinds that fail because something outside the SDK failed
ExternalSteps == {"await", "account", "ata", "pda", "build", "blockhash", "send",
                  "confirm", "get"}

\* C1 (as stated): a transaction-submitting call in which a step failed returns false
\* or {error}; it does not reject and does not return undefined.
C1_FailureReturnsSentinel ==
    \A c \in Calls :
        (op[c] \in TxOps /\ result[c].threw # <<>>) => result[c].kind \in {"false", "error"}

\* C2: within one call, a send follows setting the blockhash and fee payer, a
\* confirmation wait follows the send (and is not begun for a transaction that was
\* not sent), and every REST fetch made after the send follows the confirmation wait
\* (and is not begun before that wait has returned).
C2_EventOrder ==
    \A c \in Calls :
        /\ \A i \in DOMAIN trace[c] :
              /\ trace[c][i][1] = "send" => Before(c, "blockhash", i)
              /\ trace[c][i][1] = "confirm" => Before(c, "send", i)
              /\ (trace[c][i][1] = "get" /\ Before(c, "send", i)) => Before(c, "confirm", i)
        /\ result[c].kind = "pending" =>
              /\ Cur(c)[1] \in {"send", "rpc"} => handed[c] = 0
              /\ Cur(c)[1] = "send" => Has(c, "blockhash")
              /\ Cur(c)[1] = "confirm" => Has(c, "send")
              /\ (Cur(c)[1] = "get" /\ handed[c] > 0) => Has(c, "confirm")

\* a call that set the blockhash, sent, waited for confirmation, re-fetched, and returned
C2_Witness ==
    \E c \in Calls :
        /\ Succeeded(c)
        /\ \E i, j, k, l \in DOMAIN trace[c] :
              /\ i < j /\ j < k /\ k < l
              /\ trace[c][i][1] = "blockhash" /\ trace[c][j][1] = "send"
              /\ trace[c][k][1] = "confirm" /\ trace[c][l][1] = "get"

\* the value the call returned was fetched from the REST API after the confirmation wait
ReturnsRefetched(c) ==
    /\ result[c].val # <<>> /\ result[c].val[1] = "rest"
    /\ \E i \in DOMAIN trace[c] :
          trace[c][i] = <<"get", result[c].var>> /\ Before(c, "confirm", i)

\* the call sent its transaction and then waited for its confirmation
SentAndConfirmed(c) ==
    \E i \in DOMAIN trace[c] : trace[c][i][1] = "confirm" /\ Before(c, "send", i)

\* C3 (as stated): every transaction-submitting call that reports success has sent,
\* waited for confirmation and re-fetched, and returns the re-fetched state.
C3_SuccessReturnsRefetched ==
    \A c \in Calls :
        (op[c] \in TxOps /\ Succeeded(c)) => (SentAndConfirmed(c) /\ ReturnsRefetched(c))

\* the operations whose success value is the state re-fetched after confirmation
Refetching == {"hubInit", "hubUpdateConfig", "hubAddCollaborator",
               "hubUpdateCollaboratorPermission", "hubRemoveCollaborator",
               "hubAddRelease"} \cup (ReleaseOps \cap TxOps)

\* the operations whose success value is computed locally (an address, a transaction
\* id, true), with no REST fetch after the confirmation wait
NotRefetching == {"hubContentToggleVisibility", "postInitViaHub",
                  "collectRoyaltyForReleaseViaHub", "hubWithdraw", "exchangeInit",
                  "exchangeAccept", "exchangeCancel"}

\* C3 (amended): every transaction-submitting call that reports success has sent its
\* transaction and waited for its confirmation; the operations in Refetching then
\* re-fetch and return the re-fetched state; those in NotRefetching make no REST fetch
\* after the confirmation and return a value that did not come from the REST API.
C3_SuccessSentConfirmed ==
    \A c \in Calls :
        (op[c] \in TxOps /\ Succeeded(c)) =>
            /\ SentAndConfirmed(c)
            /\ op[c] \in Refetching \cup NotRefetching
            /\ op[c] \in Refetching => ReturnsRefetched(c)
            /\ op[c] \in NotRefetching =>
                  /\ result[c].val[1] # "rest"
                  /\ \A i \in DOMAIN trace[c] :
                        trace[c][i][1] = "get" => ~Before(c, "confirm", i)

\* a hubAddRelease that succeeded, returning what it fetched after the confirmation
C3_Witness ==
    \E c \in Calls :
        op[c] = "hubAddRelease" /\ Succeeded(c) /\ ReturnsRefetched(c)

\* C4: one call hands at most one transaction to the wallet, also after the send, the
\* confirmation wait or a later REST call failed.
C4_SingleShot ==
    \A c \in Calls : handed[c] <= 1

\* a call that failed at or after the send, having handed over its one transaction
C4_Witness ==
    \E c \in Calls :
        /\ op[c] \in TxOps /\ Done(c) /\ handed[c] = 1
        /\ result[c].threw # <<>> /\ result[c].threw[1] \in {"send", "confirm", "get"}

\* the call ended because a step outside the SDK (chain, wallet, REST API) failed
FailedOutside(c) == result[c].threw # <<>> /\ result[c].threw[1] \in ExternalSteps \cup {"rpc"}

\* name holds an instruction and the built transaction has it among its pre-instructions
InPre(c, name) ==
    name \in DOMAIN env[c] => \E i \in DOMAIN tx[c].pre : tx[c].pre[i] = env[c][name]

\* C5 (as stated): in every interleaving of two calls, the transaction a call submits
\* is the one it submits when it runs alone on the arguments it was given: a hubInit
\* submits the fees of its hubParams, as they were when it was called, times 10000.
C5_CallsIndependent ==
    \A c \in Calls :
        (op[c] \in TakesHubParams /\ tx[c].method # "none") =>
            /\ tx[c].params.publishFee = <<"num", Times10000(args[c].given.publishFee)>>
            /\ tx[c].params.referralFee = <<"num", Times10000(args[c].given.referralFee)>>

\* C6 (as stated): a releasePurchase whose transaction was confirmed returns {release},
\* the release re-fetched, unless a step outside the SDK failed.
C6_ConfirmedPurchaseReturnsRelease ==
    \A c \in Calls :
        (op[c] = "releasePurchase" /\ Done(c) /\ Has(c, "confirm")) =>
            \/ FailedOutside(c)
            \/ Succeeded(c) /\ result[c].wrap = "release" /\ ReturnsRefetched(c)

\* C7 (as stated): a purchaseViaHub that needs an account-creation instruction or swap
\* instructions puts them among the pre-instructions of the one transaction it sends,
\* and returns {release}, unless a step outside the SDK failed.
C7_PurchaseViaHubPreInstructions ==
    \A c \in Calls :
        (/\ op[c] = "purchaseViaHub" /\ Done(c)
         /\ \/ "receiverReleaseTokenAccountIx" \in DOMAIN env[c]
            \/ "transactionInstructions" \in DOMAIN env[c]) =>
            \/ FailedOutside(c)
            \/ /\ Succeeded(c) /\ result[c].wrap = "release" /\ handed[c] = 1
               /\ tx[c].method = "releasePurchaseViaHub"
               /\ InPre(c, "receiverReleaseTokenAccountIx")
               /\ InPre(c, "transactionInstructions")

\* C8 (as stated): addRoyaltyRecipient asks for the share percentShare * 10000; when
\* the recipient or the authority has no token account, the creating instruction is in
\* the submitted transaction and the call returns {release}, unless a step outside the
\* SDK failed.
C8_AddRoyaltyRecipientCreatesAccounts ==
    \A c \in Calls :
        op[c] = "addRoyaltyRecipient" =>
            /\ tx[c].method # "none" =>
                  tx[c].params.updateAmount = <<"num", args[c].percentShare * 10000>>
            /\ (/\ Done(c)
                /\ \/ "newRoyaltyRecipientTokenAccountIx" \in DOMAIN env[c]
                   \/ "authorityTokenAccountIx" \in DOMAIN env[c]) =>
                  \/ FailedOutside(c)
                  \/ /\ Succeeded(c) /\ result[c].wrap = "release"
                     /\ tx[c].method = "releaseRevenueShareTransfer"
                     /\ InPre(c, "newRoyaltyRecipientTokenAccountIx")
                     /\ InPre(c, "authorityTokenAccountIx")

\* C9 (as stated): the authority and the token account of the releaseRevenueShareCollect
\* instruction that collectRoyaltyForRelease builds are those of its recipient argument.
C9_CollectsForRecipient ==
    \A c \in Calls :
        (op[c] = "collectRoyaltyForRelease" /\ tx[c].method # "none") =>
            /\ tx[c].accounts.authority = <<"key", args[c].recipient>>
            /\ tx[c].accounts.authorityTokenAccount =
                  <<"ata", <<"key", args[c].recipient>>, env[c]["release.paymentMint"]>>

\* the value the caller gave for a pagination field, the default when none was given
GivenOr(x, d) == IF x = <<>> THEN d ELSE x[1]

\* C10 (as stated): fetchAll sends, for limit, offset and sort, the caller's value, and
\* the default (20, 0, 'desc') only for a field the caller did not give.
C10_FetchAllSendsGiven ==
    \A c \in Calls :
        (op[c] \in FetchAllOps /\ query[c] # NoQuery) =>
            /\ query[c].limit = GivenOr(args[c].pagination.limit, 20)
            /\ query[c].offset = GivenOr(args[c].pagination.offset, 0)
            /\ query[c].sort = GivenOr(args[c].pagination.sort, "desc")

\* C11 (as stated): fetchCollectors, fetchHubs, fetchExchanges and
\* fetchRevenueShareRecipients send, with their REST request, the limit, offset and
\* sort of the pagination object the caller gave.
C11_FetchesSendPagination ==
    \A c \in Calls :
        (op[c] \in PaginatedOps /\ Has(c, "get")) =>
            query[c] = PassQuery(args[c].pagination)

\* C12 (as stated): releaseInitViaHub called with its arguments in the documented
\* order builds the metadata releaseInit builds from the same values (name
\* '<artist> - <title>' cut to 32, symbol catalogNumber cut to 10, uri metadataUri)
\* and pays in USDC exactly when isUsdc is true, unless a step outside the SDK failed.
C12_DocumentedOrderBuildsMetadata ==
    \A c \in Calls :
        (/\ op[c] = "releaseInitViaHub" /\ args[c].order = "documented"
         /\ Done(c) /\ ~FailedOutside(c)) =>
            /\ tx[c].method = "releaseInitViaHub"
            /\ tx[c].params.metadataData =
                  MetadataData(args[c].named.artist, args[c].named.title,
                               args[c].named.catalogNumber, args[c].named.metadataUri)
            /\ env[c]["paymentMint"] = PaymentMint(args[c].named.isUsdc)

\* decimal digits, least significant first: m times a number, a number less one
RECURSIVE TimesLE(_, _, _)
TimesLE(ds, m, carry) ==
    IF ds = <<>>
    THEN (IF carry = 0 THEN <<>> ELSE <<carry % 10>> \o TimesLE(<<>>, m, carry \div 10))
    ELSE <<(m * Head(ds) + carry) % 10>> \o
         TimesLE(Tail(ds), m, (m * Head(ds) + carry) \div 10)

RECURSIVE DecLE(_)
DecLE(ds) == IF Head(ds) > 0 THEN <<Head(ds) - 1>> \o Tail(ds) ELSE <<9>> \o DecLE(Tail(ds))

\* 2^64 = (2^16)^4
TwoTo64LE == TimesLE(TimesLE(TimesLE(TimesLE(<<1>>, 2^16, 0), 2^16, 0), 2^16, 0), 2^16, 0)

Reverse(ds) == [i \in 1..Len(ds) |-> ds[Len(ds) + 1 - i]]

\* the number a short sequence of decimal digits spells
RECURSIVE ValueOf(_)
ValueOf(ds) == IF ds = <<>> THEN 0 ELSE 10 * ValueOf(SubSeq(ds, 1, Len(ds) - 1)) + ds[Len(ds)]

\* C13: in releaseInit and releaseInitViaHub the total supply of the transaction built
\* is 2^64 - 1 when isOpen is true, whatever amount is, and amount when isOpen is
\* false; amountToArtistTokenAccount and amountToVaultTokenAccount are 0.
C13_OpenReleaseUnlimited ==
    \A c \in Calls :
        (op[c] \in {"releaseInit", "releaseInitViaHub"} /\ tx[c].method # "none") =>
            LET config == tx[c].params.config
            IN /\ args[c].isOpen => config[2] = Reverse(DecLE(TwoTo64LE))
               /\ ~args[c].isOpen => ValueOf(config[2]) = args[c].amount
               /\ ValueOf(config[3]) = 0
               /\ ValueOf(config[4]) = 0

\* an open release with an amount given, and a closed one, each sent to the wallet
C13_Witness ==
    /\ \E c \in Calls :
          /\ op[c] \in {"releaseInit", "releaseInitViaHub"} /\ handed[c] = 1
          /\ args[c].isOpen /\ args[c].amount = MaxAmount
          /\ tx[c].params.config[2] = BN(<<"str", MAX_INT>>)

\* C14 (as stated): hubAddRelease and postInitViaHub called with a fromHub submit a
\* transaction that carries fromHub as a remaining account, neither writable nor a
\* signer, and succeed as they do without fromHub, unless a step outside the SDK failed.
C14_FromHubRemainingAccount ==
    \A c \in Calls :
        (/\ op[c] \in {"hubAddRelease", "postInitViaHub"} /\ args[c].fromHub # "none"
         /\ Done(c) /\ ~FailedOutside(c)) =>
            /\ Succeeded(c) /\ handed[c] = 1
            /\ op[c] = "hubAddRelease" => ReturnsRefetched(c)
            /\ op[c] = "postInitViaHub" => result[c].wrap = "hubPost"
            /\ tx[c].remaining =
                  << [pubkey |-> <<"key", args[c].fromHub>>,
                      isWritable |-> FALSE, isSigner |-> FALSE] >>

\* the operations that generate (or are given) a keypair for an account their
\* transaction creates, and the keypair of each
KeypairOps == {"releaseInit", "releaseInitViaHub", "exchangeInit", "exchangeAccept"}
KeypairOf(o) ==
    CASE o \in {"releaseInit", "releaseInitViaHub"} -> "releaseMint"
      [] o = "exchangeInit" -> "exchange"
      [] o = "exchangeAccept" -> "exchangeHistory"

\* C15: in releaseInit, releaseInitViaHub, exchangeInit and exchangeAccept the keypair
\* partially signs after the blockhash and fee payer are set and before the
\* transaction is handed to the wallet; no transaction is handed to the wallet
\* without that signature.
C15_SignedBeforeSubmitted ==
    \A c \in Calls :
        op[c] \in KeypairOps =>
            /\ handed[c] > 0 => KeypairOf(op[c]) \in tx[c].signers
            /\ (result[c].kind = "pending" /\ Cur(c)[1] = "send") =>
                  KeypairOf(op[c]) \in tx[c].signers
            /\ \A i \in DOMAIN trace[c] :
                  /\ trace[c][i][1] = "sign" =>
                        (Before(c, "blockhash", i) /\ ~Before(c, "send", i))
                  /\ trace[c][i][1] = "send" =>
                        \E j \in 1..(i - 1) : trace[c][j] = <<"sign", KeypairOf(op[c])>>

\* an exchangeInit whose transaction, signed by the exchange keypair, reached the wallet
C15_Witness ==
    \E c \in Calls :
        /\ op[c] = "exchangeInit" /\ handed[c] = 1 /\ Has(c, "send")
        /\ tx[c].signers = {"exchange"}

\* the address derived from a seed tag and keys
SeedAddress(tag, keys) == <<"pda", << <<"lit", tag>> >> \o keys>>

\* the hub and the release (or content account) call c is about
HubKeyOf(c) ==
    IF op[c] \in TakesHubParams THEN env[c]["hub"] ELSE <<"key", args[c].hubPublicKey>>
ReleaseKeyOf(c) ==
    IF op[c] = "initializeReleaseAndMint" THEN env[c]["release"]
    ELSE IF op[c] = "releaseInitViaHub" THEN <<"key", args[c].release>>
    ELSE <<"key", args[c].releasePublicKey>>

\* local v of call c, once derived, is address a
DerivedIs(c, v, a) == v \in DOMAIN env[c] => env[c][v] = a

\* C16: the hub-release, hub-content and hub-signer addresses are derived from the
\* same seeds ('nina-hub-release', hub, release; 'nina-hub-content', hub, release;
\* 'nina-hub-signer', hub) in every operation named, and the hub-collaborator address
\* of the wallet from ('nina-hub-collaborator', hub, wallet).
C16_AddressesAgree ==
    \A c \in Calls :
        LET hubRelease == SeedAddress("nina-hub-release", <<HubKeyOf(c), ReleaseKeyOf(c)>>)
            hubContent == SeedAddress("nina-hub-content", <<HubKeyOf(c), ReleaseKeyOf(c)>>)
            hubSigner == SeedAddress("nina-hub-signer", <<HubKeyOf(c)>>)
            hubCollaborator ==
                SeedAddress("nina-hub-collaborator", <<HubKeyOf(c), <<"key", "W">> >>)
        IN /\ op[c] \in {"purchaseViaHub", "releaseInitViaHub", "initializeReleaseAndMint",
                         "hubAddRelease", "collectRoyaltyForReleaseViaHub"} =>
                 DerivedIs(c, "hubRelease", hubRelease)
           /\ (op[c] = "hubContentToggleVisibility" /\ args[c].type = "Release") =>
                 DerivedIs(c, "hubChildPublicKey", hubRelease)
           /\ op[c] \in {"purchaseViaHub", "releaseInitViaHub", "hubAddRelease",
                         "hubContentToggleVisibility"} =>
                 DerivedIs(c, "hubContent", hubContent)
           /\ op[c] \in {"purchaseViaHub", "releaseInitViaHub", "hubWithdraw", "hubInit"} =>
                 DerivedIs(c, "hubSigner", hubSigner)
           /\ op[c] \in {"hubInit", "hubAddRelease", "postInitViaHub", "releaseInitViaHub"} =>
                 DerivedIs(c, "hubCollaborator", hubCollaborator)
           /\ op[c] = "hubAddCollaborator" =>
                 DerivedIs(c, "authorityHubCollaborator", hubCollaborator)

\* initializeReleaseAndMint derived a hub-release address for a hub
C16_Witness ==
    \E c \in Calls :
        /\ op[c] = "initializeReleaseAndMint" /\ Succeeded(c)
        /\ "hubRelease" \in DOMAIN env[c]
        /\ env[c]["hubRelease"][2][1] = <<"lit", "nina-hub-release">>

\* C17 (as stated): a postUpdateViaHub call in which no step outside the SDK failed
\* builds a postUpdateViaHubPost instruction, sends it, waits for its confirmation and
\* returns the hub-post address.
C17_PostUpdateSubmits ==
    \A c \in Calls :
        (op[c] = "postUpdateViaHub" /\ Done(c)) =>
            \/ FailedOutside(c)
            \/ /\ Succeeded(c) /\ result[c].var = "hubPost"
               /\ tx[c].method = "postUpdateViaHubPost"
               /\ SentAndConfirmed(c)

\* C18 (as stated): a hubInitWithCredit call whose transaction was sent and whose
\* confirmation lookup returned re-fetches the hub and returns the hub's address; it
\* does not return false unless a step outside the SDK failed.
C18_CreatedHubNotReportedFalse ==
    \A c \in Calls :
        (op[c] = "hubInitWithCredit" /\ Done(c) /\ Has(c, "confirm")) =>
            \/ FailedOutside(c)
            \/ Succeeded(c) /\ Has(c, "get") /\ result[c].var = "hub"

====
